---- MODULE Spec2Model ----
(***************************************************************************)
(* Session and routing engine of the presence-aware relay (src/server.py). *)
(*                                                                         *)
(* Every connection is served by one asyncio task running handle_client.   *)
(* Tasks are scheduled cooperatively: a task runs without interruption     *)
(* until it waits for a frame (websocket.recv, async for), until a         *)
(* websocket.send has written its frame and has to wait for the transport  *)
(* to drain, or until it sleeps.  One action of this model is one such     *)
(* uninterrupted run of one handler, from its resumption to its next       *)
(* suspension; the code between two suspension points is atomic.           *)
(*                                                                         *)
(* A Python str is a sequence of one-character strings, so that len() and  *)
(* bleach.clean() are computed rather than tabulated.                      *)
(***************************************************************************)
EXTENDS Integers, Sequences, FiniteSets, TLC

\* ------------------------------------------------------------------ bounds
\* Number of connections the listener accepts in one run of the model
\* (client connections and the server's connections to itself together).
MaxConn == 2

\* Number of Credential Store identities the clients of the model log in as.
MaxIds == 2

\* Number of handlers that are suspended in a send at the same time (a send
\* suspends its handler only while the peer does not take the frames).
MaxBlocked == 1

\* --------------------------------------------------------------- constants
\* len(jid) > 64 and len(password) > 64
LenLimit == 64

\* ----------------------------------------------------------------- strings
Rep(n, ch) == [i \in 1..n |-> ch]

None == <<"None">>

J1 == <<"c", "1", "@", "s", "5">>
J2 == <<"c", "2", "@", "s", "5">>
J3 == <<"c", "3", "@", "s", "5">>
J4 == <<"c", "4", "@", "s", "5">>
T1 == <<"t", "e", "s", "t", "1", "@", "s", "5">>
T2 == <<"t", "e", "s", "t", "2", "@", "s", "5">>
Public == <<"p", "u", "b", "l", "i", "c">>
Stranger == <<"x", "@", "s", "5">>
Hi == <<"h", "i">>
Comment == <<"<", "!", "-", "-", "x", "-", "-", ">">>
Markup == <<"<", "s", ">">>

\* Plain passwords of the model.  The source holds only the bcrypt hashes;
\* Pw1, Pw2, Pw3 stand for the passwords of the first three records.
Pw1 == <<"p", "w", "1">>
Pw2 == <<"p", "w", "2">>
Pw3 == <<"p", "w", "3">>

\* ---------------------------------------------------------------- bleach
CommentOpen == <<"<", "!", "-", "-">>
CommentClose == <<"-", "-", ">">>

IsPrefix(p, s) == Len(p) <= Len(s) /\ SubSeq(s, 1, Len(p)) = p

\* The text after the first "-->" of s, or the empty string when the comment
\* is not closed (the parser then takes the rest of the input as comment).
RECURSIVE AfterComment(_)
AfterComment(s) ==
    IF s = <<>> THEN <<>>
    ELSE IF IsPrefix(CommentClose, s) THEN SubSeq(s, Len(CommentClose) + 1, Len(s))
    ELSE AfterComment(Tail(s))

Escape(ch) ==
    IF ch = "<" THEN <<"&", "l", "t", ";">>
    ELSE IF ch = ">" THEN <<"&", "g", "t", ";">>
    ELSE IF ch = "&" THEN <<"&", "a", "m", "p", ";">>
    ELSE <<ch>>

\* bleach.clean(text) with its default arguments, on text without allowed
\* tags and without character references: HTML comments are dropped, and
\* every other markup character is escaped.
RECURSIVE Clean(_)
Clean(s) ==
    IF s = <<>> THEN <<>>
    ELSE IF IsPrefix(CommentOpen, s)
         THEN Clean(AfterComment(SubSeq(s, Len(CommentOpen) + 1, Len(s))))
    ELSE Escape(Head(s)) \o Clean(Tail(s))

\* -------------------------------------------------------- credential store
Hash1 == "$2b$12$qWoDtedvx8jurr/2XVex7.raoa7tqIofxPYrx1.oy6qmDpHavkYwa"
Hash2 == "$2b$12$suJThyymiIVez4nLyUjpPurPq/E3BBTRdDGMnxADdbIjdst5kbKvS"
Hash3 == "$2b$12$Cz8bUuhzYyoHMdbvZLlcs.Cc0nOSR3VzAHOFrnF3ic6unrxZ6rwoG"
Hash4 == "$2b$12$FwNWm33zvTOFtK6yrUXW0uMrMdu9jGR9AY7RgKgcm0sEzWjbhquOK"
Hash5 == "$2b$12$JMN7bSNLOQw9CvefBs79rOsQYefOhnFfxt1zzKVsiKF1tw7ha5URG"
Hash6 == "$2b$12$rFzKEMeiJISlYvU1CMzSg.8ZdUn3vbfKtBRBmjQuJ3vpQV5zOY12u"

StoreJids == {J1, J2, J3, J4, T1, T2}

\* The module-level dict registered_clients as the module is loaded.
InitialClients ==
    [j \in StoreJids |->
        IF j = J1 THEN [nickname |-> "pemba", jid |-> J1, password |-> Hash1]
        ELSE IF j = J2 THEN [nickname |-> "saurab", jid |-> J2, password |-> Hash2]
        ELSE IF j = J3 THEN [nickname |-> "roshan", jid |-> J3, password |-> Hash3]
        ELSE IF j = J4 THEN [nickname |-> "bidur", jid |-> J4, password |-> Hash4]
        ELSE IF j = T1 THEN [nickname |-> "test1", jid |-> T1, password |-> Hash5]
        ELSE [nickname |-> "test2", jid |-> T2, password |-> Hash6]]

\* bcrypt.checkpw: the stored hash is the hash of the provided password.
\* bcrypt is a collaborator of the program; the model knows the hash of its
\* own three passwords and of no other string.
verify_password(stored_hash, provided_password) ==
    \/ stored_hash = Hash1 /\ provided_password = Pw1
    \/ stored_hash = Hash2 /\ provided_password = Pw2
    \/ stored_hash = Hash3 /\ provided_password = Pw3

\* ------------------------------------------------------------------ state
VARIABLES
    registered_clients,  \* the Credential Store dict, jid -> record
    active_connections,  \* entry table of the registry dict: its keys in
                         \* insertion order, Dummy where a key was deleted;
                         \* the value stored under key k is the very record
                         \* registered_clients[k] (line 151, line 154)
    pc,                  \* per connection: where its handler is suspended
    alive,               \* per connection: the transport is open
    jid,                 \* per connection: the local variable jid (line 72)
    iter,                \* per connection: the broadcast loop it is inside
    ev,                  \* what the last step received, sent and raised
    login,               \* per connection: the login frame it sent, judged
    latest               \* per identity: the connection of its last login

vars == <<registered_clients, active_connections, pc, alive, jid, iter, ev, login, latest>>

\* The connections of the model; those in Conns are accepted in every
\* specification, the last one only where a third party is needed.
Slots == 1..(MaxConn + 1)
Conns == 1..MaxConn

\* --------------------------------------------------------------- the dict
Dummy == <<"<dummy>">>

Keys(ac) == {ac[i] : i \in DOMAIN ac} \ {Dummy}

LiveKeys(ac) == SelectSeq(ac, LAMBDA k : k # Dummy)

\* len(active_connections), the ma_used a dict iterator compares against
Used(ac) == Len(LiveKeys(ac))

\* active_connections[k] = user: an existing key keeps its entry, a new
\* key is appended.  (CPython rebuilds the entry table of a dict on its
\* sixth insertion; the handlers of the model insert at most once each.)
DictSet(ac, k) == IF k \in Keys(ac) THEN ac ELSE Append(ac, k)

\* del active_connections[k]
DictDel(ac, k) == [i \in DOMAIN ac |-> IF ac[i] = k THEN Dummy ELSE ac[i]]

\* ---------------------------------------------------------------- messages
ErrorMessage(message) == [tag |-> "error", message |-> message]

SuccessMessage(user) ==
    [tag |-> "success", message |-> "Login successful", nickname |-> user.nickname]

Roster(rc, ac) ==
    [i \in 1..Used(ac) |->
        LET client_info == rc[LiveKeys(ac)[i]]
        IN  [nickname |-> client_info.nickname,
             jid |-> client_info.jid,
             publickey |-> client_info.publickey]]

PresenceMessage(rc, ac) == [tag |-> "presence", presence |-> Roster(rc, ac)]

create_message_format(data, tag) ==
    IF tag = "file"
    THEN [tag |-> tag, from |-> data.from, to |-> data.to, info |-> data.info,
          filename |-> data.filename]
    ELSE [tag |-> tag, from |-> data.from, to |-> data.to, info |-> data.info]

\* ------------------------------------------------------------ authenticator
\* authenticate_user without the password check
authenticate_user_any_password(rc, j, password) == j \in DOMAIN rc

authenticate_user(rc, j, password) ==
    IF j \in DOMAIN rc THEN verify_password(rc[j].password, password) ELSE FALSE

\* user = registered_clients[jid]; user['websocket'] = ...; user['publickey'] = ...
\* The record of the Credential Store itself is written.
add_clients_to_active_connections(rc, j, websocket, publickey) ==
    [rc EXCEPT ![j] = [nickname |-> @.nickname, jid |-> @.jid, password |-> @.password,
                       websocket |-> websocket, publickey |-> publickey]]

\* ---------------------------------------------------------------- sending
\* What a run of a handler has done so far: the frames it sent (sent), the
\* presence messages it built (push), the broadcast loops it left (fin),
\* the record it handed to route_message (fwd), the exception that ended
\* its try block (exc).
Acc0 == [sent |-> <<>>, push |-> <<>>, fin |-> <<>>, fwd |-> <<>>, exc |-> ""]

\* What a run of a handler leaves behind: where the handler is suspended
\* (pc, it), the registry (ac), what it did (acc), and the exception that
\* left the finally block (fexc).
Outcome(p, it, ac, acc, fexc) ==
    [pc |-> p, it |-> it, ac |-> ac, sent |-> acc.sent, push |-> acc.push,
     fin |-> acc.fin, fwd |-> acc.fwd, exc |-> acc.exc, fexc |-> fexc]

AccOf(o) == [sent |-> o.sent, push |-> o.push, fin |-> o.fin, fwd |-> o.fwd, exc |-> o.exc]

Frame(websocket, message) == [chan |-> websocket, msg |-> message]

\* A broadcast loop that ended, for the record of the step: the message,
\* the channels registered when it started (snap), those of them that are
\* open now (open), the channels it sent on (got), and the exception that
\* ended it ("" when the iterator was exhausted).
Summary(it, al, exc) ==
    [msg |-> it.msg, snap |-> it.snap, open |-> {w \in it.snap : al[w]}, got |-> it.got,
     cont |-> it.cont, exc |-> exc]

\* for client_info in active_connections.values(): the iterator, with the
\* channels registered now (snap) and those sent on so far (got).
StartLoop(rc, ac, message, cont) ==
    [used |-> Used(ac), pos |-> 0, len |-> Used(ac), msg |-> message, cont |-> cont,
     snap |-> {rc[k].websocket : k \in Keys(ac)}, got |-> <<>>]

\* One pass of "for client_info in active_connections.values(): await
\* send_message(client_info['websocket'], message)": the dict iterator's
\* next(), then websocket.send on the channel the record holds now.
\* sent: the frame went out; end: the iterator is exhausted; raise: next()
\* or send() raised.
BroadcastNext(rc, ac, al, it) ==
    LET rest == {i \in DOMAIN ac : i > it.pos /\ ac[i] # Dummy}
        i == CHOOSE x \in rest : \A y \in rest : x <= y
        websocket == rc[ac[i]].websocket
    IN  IF it.used # Used(ac)
        THEN [st |-> "raise", exc |-> "RuntimeError", it |-> it]
        ELSE IF rest = {}
        THEN [st |-> "end", exc |-> "", it |-> it]
        ELSE IF it.len = 0
        THEN [st |-> "raise", exc |-> "RuntimeError", it |-> it]
        ELSE IF ~al[websocket]
        THEN [st |-> "raise", exc |-> "ConnectionClosed", it |-> it]
        ELSE [st |-> "sent", exc |-> "",
              it |-> [it EXCEPT !.pos = i, !.len = @ - 1, !.got = Append(@, websocket)]]

\* The broadcast loop of cleanup_user's presence message, from iterator it
\* to the next send.  When it raises, the exception leaves the finally
\* block and the sleep and attempt_reconnect after it are skipped.
cleanup_loop(rc, ac, al, it, acc) ==
    LET r == BroadcastNext(rc, ac, al, it)
        left == [acc EXCEPT !.fin = Append(@, Summary(r.it, al, r.exc))]
    IN  IF r.st = "sent"
        THEN Outcome("bcast", <<r.it>>, ac,
                     [acc EXCEPT !.sent = Append(@, Frame(r.it.got[Len(r.it.got)], it.msg))], "")
        ELSE IF r.st = "end" THEN Outcome("sleep", <<>>, ac, left, "")
        ELSE Outcome("done", <<>>, ac, left, r.exc)

\* cleanup_user that broadcasts the presence and leaves the session in
cleanup_user_keeping(rc, ac, al, j, acc) ==
    IF j \in Keys(ac)
    THEN LET message == PresenceMessage(rc, ac)
         IN  cleanup_loop(rc, ac, al, StartLoop(rc, ac, message, "sleep"),
                          [acc EXCEPT !.push = Append(@, message)])
    ELSE Outcome("sleep", <<>>, ac, acc, "")

\* cleanup_user(jid) in the finally block, then the sleep.  acc.exc is the
\* exception that ended the try block ("" for none).
cleanup_user(rc, ac, al, j, acc) ==
    IF j \in Keys(ac)
    THEN LET ac2 == DictDel(ac, j)
             message == PresenceMessage(rc, ac2)
         IN  cleanup_loop(rc, ac2, al, StartLoop(rc, ac2, message, "sleep"),
                          [acc EXCEPT !.push = Append(@, message)])
    ELSE Outcome("sleep", <<>>, ac, acc, "")

\* A broadcast loop inside the try block, from iterator it to the next
\* send.  An exception ends the try block and the finally block runs.
broadcast_loop(rc, ac, al, j, it, acc) ==
    LET r == BroadcastNext(rc, ac, al, it)
        left == [acc EXCEPT !.fin = Append(@, Summary(r.it, al, r.exc))]
    IN  IF r.st = "sent"
        THEN Outcome("bcast", <<r.it>>, ac,
                     [acc EXCEPT !.sent = Append(@, Frame(r.it.got[Len(r.it.got)], it.msg))], "")
        ELSE IF r.st = "end" THEN Outcome("loop", <<>>, ac, left, "")
        ELSE cleanup_user(rc, ac, al, j, [left EXCEPT !.exc = r.exc])

\* broadcast(message) called inside the try block
broadcast(rc, ac, al, j, message, acc) ==
    broadcast_loop(rc, ac, al, j, StartLoop(rc, ac, message, "loop"), acc)

\* broadcast_presence() of line 99
broadcast_presence(rc, ac, al, j, acc) ==
    LET online_users == PresenceMessage(rc, ac)
    IN  broadcast(rc, ac, al, j, online_users, [acc EXCEPT !.push = Append(@, online_users)])

\* send_message(websocket, message) inside the try block; next is where
\* the handler is when the frame went out.
send_message(rc, ac, al, j, websocket, message, next, acc) ==
    IF al[websocket]
    THEN Outcome(next, <<>>, ac, [acc EXCEPT !.sent = Append(@, Frame(websocket, message))], "")
    ELSE cleanup_user(rc, ac, al, j, [acc EXCEPT !.exc = "ConnectionClosed"])

\* ------------------------------------------------------------------ router
\* route_message that broadcasts to a target it does not know
route_message_unknown_to_all(rc, ac, al, j, target_jid, message) ==
    LET acc == [Acc0 EXCEPT !.fwd = <<message>>]
    IN  IF target_jid = Public \/ target_jid \notin Keys(ac)
        THEN broadcast(rc, ac, al, j, message, acc)
        ELSE send_message(rc, ac, al, j, rc[target_jid].websocket, message, "loop", acc)

\* route_message that broadcasts whatever the target is
route_message_to_all(rc, ac, al, j, target_jid, message) ==
    broadcast(rc, ac, al, j, message, [Acc0 EXCEPT !.fwd = <<message>>])

route_message(rc, ac, al, j, target_jid, message) ==
    LET acc == [Acc0 EXCEPT !.fwd = <<message>>]
    IN  IF target_jid = Public THEN broadcast(rc, ac, al, j, message, acc)
        ELSE IF target_jid \in Keys(ac)
        THEN send_message(rc, ac, al, j, rc[target_jid].websocket, message, "loop", acc)
        ELSE Outcome("loop", <<>>, ac, acc, "")

\* process_message that does not look at the sender
process_message_any_sender(rc, ac, al, j, data) ==
    IF data.tag = "message" /\ Clean(data.info) # <<>>
    THEN route_message(rc, ac, al, j, data.to, create_message_format(data, "message"))
    ELSE IF data.tag = "file"
    THEN route_message(rc, ac, al, j, data.to, create_message_format(data, "file"))
    ELSE Outcome("loop", <<>>, ac, Acc0, "")

\* process_message that tests the info as received, not as sanitized
process_message_raw_info(rc, ac, al, j, data) ==
    IF data.from \in Keys(ac)
    THEN IF data.tag = "message" /\ data.info # <<>>
         THEN route_message(rc, ac, al, j, data.to, create_message_format(data, "message"))
         ELSE IF data.tag = "file"
         THEN route_message(rc, ac, al, j, data.to, create_message_format(data, "file"))
         ELSE Outcome("loop", <<>>, ac, Acc0, "")
    ELSE Outcome("loop", <<>>, ac, Acc0, "")

process_message(rc, ac, al, j, data) ==
    IF data.from \in Keys(ac)
    THEN LET target_jid == data.to
             info == Clean(data.info)
         IN  IF data.tag = "message" /\ info # <<>>
             THEN route_message(rc, ac, al, j, target_jid,
                                create_message_format(data, "message"))
             ELSE IF data.tag = "file"
             THEN route_message(rc, ac, al, j, target_jid,
                                create_message_format(data, "file"))
             ELSE Outcome("loop", <<>>, ac, Acc0, "")
    ELSE Outcome("loop", <<>>, ac, Acc0, "")

\* ------------------------------------------------------ connection handler
\* The validation chain with the length checks off by one
LoginErrorFrom64(rc, j, password) ==
    IF j = <<>> THEN "* JID cannot be empty"
    ELSE IF Len(j) >= LenLimit THEN "* JID should be less than 64 characters"
    ELSE IF password = <<>> THEN "* Password cannot be empty"
    ELSE IF Len(password) >= LenLimit THEN "* Password should be less than 64 characters"
    ELSE IF authenticate_user(rc, j, password) THEN ""
    ELSE "Incorrect email and password"

\* The error named by the validation chain of handle_client (lines 80-103);
\* "" when authenticate_user accepts the login.
LoginError(rc, j, password) ==
    IF j = <<>> THEN "* JID cannot be empty"
    ELSE IF Len(j) > LenLimit THEN "* JID should be less than 64 characters"
    ELSE IF password = <<>> THEN "* Password cannot be empty"
    ELSE IF Len(password) > LenLimit THEN "* Password should be less than 64 characters"
    ELSE IF authenticate_user(rc, j, password) THEN ""
    ELSE "Incorrect email and password"

\* handle_client from the login frame to its first suspension: the record
\* store after it (rc) and the outcome (o).
handle_login(rc, ac, al, websocket, data) ==
    LET j == Clean(data.jid)
        password == Clean(data.password)
        publickey == data.publickey
        err == LoginError(rc, j, password)
        rc2 == add_clients_to_active_connections(rc, j, websocket, publickey)
    IN  IF err = ""
        THEN [rc |-> rc2,
              o |-> send_message(rc2, DictSet(ac, j), al, j, websocket,
                                 SuccessMessage(rc2[j]), "presence", Acc0)]
        ELSE [rc |-> rc,
              o |-> send_message(rc, ac, al, j, websocket, ErrorMessage(err),
                                 "finally", Acc0)]

\* The pcs at which a handler is suspended in a send, waiting for the
\* transport to drain.
Blocked == {"presence", "finally", "bcast"}

\* The handler suspended as o describes goes on to its next send or wait.
Continue(rc, al, j, o) ==
    IF o.pc = "presence" THEN broadcast_presence(rc, o.ac, al, j, AccOf(o))
    ELSE IF o.pc = "finally" THEN cleanup_user(rc, o.ac, al, j, AccOf(o))
    ELSE IF o.pc = "bcast" /\ o.it[1].cont = "sleep"
    THEN cleanup_loop(rc, o.ac, al, o.it[1], AccOf(o))
    ELSE IF o.pc = "bcast" THEN broadcast_loop(rc, o.ac, al, j, o.it[1], AccOf(o))
    ELSE o

\* The handler goes on while no send makes it wait: up to the next read,
\* the sleep, or its end.
RECURSIVE Run(_, _, _, _)
Run(rc, al, j, o) == IF o.pc \in Blocked THEN Run(rc, al, j, Continue(rc, al, j, o)) ELSE o

\* ------------------------------------------------------------------ inputs
IdSeq == <<J1, J2, J3>>
PwSeq == <<Pw1, Pw2, Pw3>>

\* The identities the clients of the model own, and their passwords.
LoginJids == {IdSeq[i] : i \in 1..MaxIds}
LoginPasswords == {PwSeq[i] : i \in 1..MaxIds}

\* The public key of the client behind connection c.
PubKey(c) == <<"key", c>>

LoginFrame(j, password, publickey) ==
    [jid |-> j, password |-> password, publickey |-> publickey, nickname |-> "mallory"]

\* data['presence'][0] of the login frames a client sends on connection c.
\* The nickname is a field the handler never reads.
LoginFrames(c) ==
    {LoginFrame(IdSeq[i], PwSeq[i], PubKey(c)) : i \in 1..MaxIds}
    \cup {LoginFrame(J1 \o Comment, Pw1, PubKey(c)),
          LoginFrame(J1, Pw2, PubKey(c)),
          LoginFrame(J1, <<>>, PubKey(c)),
          LoginFrame(J1, Rep(LenLimit + 1, "b"), PubKey(c)),
          LoginFrame(Stranger, Pw1, PubKey(c)),
          LoginFrame(<<>>, <<>>, PubKey(c)),
          LoginFrame(Comment, Pw1, PubKey(c)),
          LoginFrame(Rep(LenLimit, "a"), Rep(LenLimit, "b"), PubKey(c)),
          LoginFrame(Rep(LenLimit + 1, "a"), Rep(LenLimit + 1, "b"), PubKey(c))}

Envelope(tag, from, to, info, filename) ==
    [tag |-> tag, from |-> from, to |-> to, info |-> info, filename |-> filename,
     extra |-> "x"]

\* The frames read in the message loop.
Envelopes ==
    {Envelope("message", from, to, Hi, None) :
        from \in LoginJids \cup {Stranger}, to \in LoginJids \cup {Public, Stranger}}
    \cup {Envelope("message", J1, J2, info, None) : info \in {<<>>, Comment, Markup}}
    \cup {Envelope("file", J1, to, <<>>, <<"f">>) : to \in {Public, J2}}
    \cup {Envelope("typing", J1, J2, Hi, None)}

\* ------------------------------------------------------- what was asked for
\* A login frame passes the four validation checks and names an identity
\* of the Credential Store as loaded together with its password.
Accepted(data) ==
    LET j == Clean(data.jid)
        password == Clean(data.password)
    IN  /\ j # <<>> /\ Len(j) <= LenLimit
        /\ password # <<>> /\ Len(password) <= LenLimit
        /\ j \in StoreJids
        /\ verify_password(InitialClients[j].password, password)

\* The login frame of a connection as the history keeps it.
Judged(data) ==
    IF Accepted(data)
    THEN [ok |-> TRUE, jid |-> Clean(data.jid), publickey |-> data.publickey]
    ELSE [ok |-> FALSE, jid |-> None, publickey |-> None]

\* ----------------------------------------------------------------- actions
Init ==
    /\ registered_clients = InitialClients
    /\ active_connections = <<>>
    /\ pc = [c \in Slots |-> "idle"]
    /\ alive = [c \in Slots |-> FALSE]
    /\ jid = [c \in Slots |-> None]
    /\ iter = [c \in Slots |-> <<>>]
    /\ login = [c \in Slots |-> <<>>]
    /\ latest = [j \in StoreJids |-> 0]
    /\ ev = [op |-> "init", c |-> 0, inp |-> <<>>, sent |-> <<>>, push |-> <<>>,
             fin |-> <<>>, fwd |-> <<>>, exc |-> "", fexc |-> ""]

\* The connections are accepted in the order of their numbers.
NextConn(c) == pc[c] = "idle" /\ \A d \in Slots : d < c => pc[d] # "idle"

Quiet(op, c) ==
    ev' = [op |-> op, c |-> c, inp |-> <<>>, sent |-> <<>>, push |-> <<>>,
           fin |-> <<>>, fwd |-> <<>>, exc |-> "", fexc |-> ""]

\* The deleted entries of the table are seen by the iterators of the
\* running broadcast loops only: with no handler inside a loop the table is
\* kept without them.
Settle(ac, p) == IF \E d \in Slots : p[d] = "bcast" THEN ac ELSE LiveKeys(ac)

\* The handler has removed its session: no handler reads from its channel
\* or sends on it from now on.
Leaving(o) == o.pc \in {"sleep", "done"} \/ (o.pc = "bcast" /\ o.it[1].cont = "sleep")

\* A run of handler c ends with outcome o.  alive[c] tells the state of the
\* transport as long as a handler can read it, and is FALSE from then on
\* (when the handler returns the library closes the connection).  jid is
\* read last by cleanup_user.
Commit(op, c, inp, rc, al, j, o) ==
    /\ registered_clients' = rc
    /\ active_connections' = Settle(o.ac, [pc EXCEPT ![c] = o.pc])
    /\ pc' = [pc EXCEPT ![c] = o.pc]
    /\ alive' = [al EXCEPT ![c] = IF Leaving(o) THEN FALSE ELSE @]
    /\ jid' = [jid EXCEPT ![c] = IF o.pc \in {"sleep", "done"} THEN None ELSE j]
    /\ iter' = [iter EXCEPT ![c] = o.it]
    /\ ev' = [op |-> op, c |-> c, inp |-> inp, sent |-> o.sent, push |-> o.push,
              fin |-> o.fin, fwd |-> o.fwd, exc |-> o.exc, fexc |-> o.fexc]

\* Handler c runs from its resumption to its next suspension.  o is its
\* state at its first send.  blk: that send suspends it; otherwise no send
\* of this run does.
Step(op, c, inp, rc, al, j, o, blk) ==
    /\ blk => /\ o.pc \in Blocked
              /\ Cardinality({d \in Slots \ {c} : pc[d] \in Blocked}) < MaxBlocked
    /\ Commit(op, c, inp, rc, al, j, IF blk THEN o ELSE Run(rc, al, j, o))

\* websockets.serve accepts a client connection and starts handle_client,
\* which waits for the login frame.
Accept(c) ==
    /\ NextConn(c)
    /\ pc' = [pc EXCEPT ![c] = "login"]
    /\ alive' = [alive EXCEPT ![c] = TRUE]
    /\ Quiet("accept", c)
    /\ UNCHANGED <<registered_clients, active_connections, jid, iter, login, latest>>

\* The peer of c closes, or its transport fails.
PeerClose(c) ==
    /\ pc[c] \in {"login", "presence", "bcast", "loop"}
    /\ alive[c]
    /\ alive' = [alive EXCEPT ![c] = FALSE]
    /\ Quiet("close", c)
    /\ UNCHANGED <<registered_clients, active_connections, pc, jid, iter, login, latest>>

\* handle_client reads the login frame (lines 74-103).  up: the peer is
\* still there when the reply is sent.
Login(c, data, up, blk) ==
    /\ pc[c] = "login"
    /\ alive[c]
    /\ LET al == [alive EXCEPT ![c] = up]
           r == handle_login(registered_clients, active_connections, al, c, data)
       IN  /\ Step("login", c, <<data>>, r.rc, al, Clean(data.jid), r.o, blk)
           /\ login' = [login EXCEPT ![c] = <<Judged(data)>>]
           /\ latest' = IF Accepted(data) THEN [latest EXCEPT ![Clean(data.jid)] = c]
                         ELSE latest

\* The login frame is not of the expected shape and a statement of lines
\* 74-77 raises: json.loads, a subscript or bleach.clean of the jid (j is
\* None, as assigned at line 72), or bleach.clean of a password that is
\* no string, after jid was assigned at line 75 (j is that jid).
BadLogin(c, j, blk) ==
    /\ pc[c] = "login"
    /\ alive[c]
    /\ Step("badlogin", c, <<>>, registered_clients, alive, j,
            cleanup_user(registered_clients, active_connections, alive, j,
                         [Acc0 EXCEPT !.exc = "Exception"]), blk)
    /\ login' = [login EXCEPT ![c] = <<[ok |-> FALSE, jid |-> None, publickey |-> None]>>]
    /\ UNCHANGED latest

\* The transport has drained and the handler goes on after its send: with
\* broadcast_presence (line 99), with the next pass of a broadcast loop
\* (lines 241-242), or with the finally block (lines 109-111).
Resume(c, blk) ==
    /\ pc[c] \in Blocked
    /\ Step("resume", c, <<>>, registered_clients, alive, jid[c],
            Continue(registered_clients, alive, jid[c],
                     Outcome(pc[c], iter[c], active_connections, Acc0, "")), blk)
    /\ UNCHANGED <<login, latest>>

\* handle_messages reads a frame and process_message handles it.
Recv(c, data, up, blk) ==
    /\ pc[c] = "loop"
    /\ alive[c]
    /\ LET al == [alive EXCEPT ![c] = up]
       IN  Step("recv", c, <<data>>, registered_clients, al, jid[c],
                process_message(registered_clients, active_connections, al, jid[c], data),
                blk)
    /\ UNCHANGED <<login, latest>>

\* A frame of the message loop that json.loads or bleach.clean rejects.
BadFrame(c, blk) ==
    /\ pc[c] = "loop"
    /\ alive[c]
    /\ Step("badframe", c, <<>>, registered_clients, alive, jid[c],
            cleanup_user(registered_clients, active_connections, alive, jid[c],
                         [Acc0 EXCEPT !.exc = "Exception"]), blk)
    /\ UNCHANGED <<login, latest>>

\* recv or the async for finds the connection closed: the try block ends
\* and the finally block runs.
ReadFail(c, blk) ==
    /\ pc[c] \in {"login", "loop"}
    /\ ~alive[c]
    /\ Step("readfail", c, <<>>, registered_clients, alive, jid[c],
            cleanup_user(registered_clients, active_connections, alive, jid[c],
                         [Acc0 EXCEPT !.exc = "ConnectionClosed"]), blk)
    /\ UNCHANGED <<login, latest>>

\* attempt_reconnect after the sleep: the server connects to its own
\* listener.  When the connection is made the listener accepts it as
\* connection d; handle_client(websocket) then raises TypeError (path is
\* missing), the async with closes the connection at once, and d is a
\* connection that never sends a frame.
ReconnectMade(c, d) ==
    /\ pc[c] = "sleep"
    /\ NextConn(d)
    /\ pc' = [pc EXCEPT ![c] = "done", ![d] = "login"]
    /\ alive' = [alive EXCEPT ![c] = FALSE]
    /\ jid' = [jid EXCEPT ![c] = None]
    /\ Quiet("reconnect", c)
    /\ UNCHANGED <<registered_clients, active_connections, iter, login, latest>>

\* attempt_reconnect when websockets.connect raises.
ReconnectFailed(c) ==
    /\ pc[c] = "sleep"
    /\ pc' = [pc EXCEPT ![c] = "done"]
    /\ alive' = [alive EXCEPT ![c] = FALSE]
    /\ jid' = [jid EXCEPT ![c] = None]
    /\ Quiet("noreconnect", c)
    /\ UNCHANGED <<registered_clients, active_connections, iter, login, latest>>

Next ==
    \E c \in Conns :
        \/ Accept(c)
        \/ PeerClose(c)
        \/ \E data \in LoginFrames(c), up, blk \in BOOLEAN : Login(c, data, up, blk)
        \/ \E j \in {None, J1}, blk \in BOOLEAN : BadLogin(c, j, blk)
        \/ \E blk \in BOOLEAN : Resume(c, blk)
        \/ \E data \in Envelopes, up, blk \in BOOLEAN : Recv(c, data, up, blk)
        \/ \E blk \in BOOLEAN : BadFrame(c, blk)
        \/ \E blk \in BOOLEAN : ReadFail(c, blk)
        \/ \E d \in Conns : ReconnectMade(c, d)
        \/ ReconnectFailed(c)

Spec == Init /\ [][Next]_vars

\* The login frame of the client behind connection c when every client
\* logs in with an identity of its own and the right password.
OwnFrame(c) ==
    LET i == ((c - 1) % Len(IdSeq)) + 1
    IN  LoginFrame(IdSeq[i], PwSeq[i], PubKey(c))

\* One connection more, every client with its own identity, and no
\* traffic but logins and disconnections.
NextCrowd ==
    \E c \in Slots :
        \/ Accept(c)
        \/ PeerClose(c)
        \/ \E up, blk \in BOOLEAN : Login(c, OwnFrame(c), up, blk)
        \/ \E blk \in BOOLEAN : Resume(c, blk)
        \/ \E blk \in BOOLEAN : ReadFail(c, blk)
        \/ ReconnectFailed(c)

SpecCrowd == Init /\ [][NextCrowd]_vars

\* ------------------------------------------------------------------ claims
Sessions == Keys(active_connections)

\* The channel the registry holds for identity k.
Channel(k) == registered_clients[k].websocket

\* C1: authentication gating.  Every key of the session registry is an
\* identity of the Credential Store, and the channel stored under it is a
\* connection whose login frame passed the four validation checks and the
\* authentication for that very identity; a connection whose login failed
\* never has its channel in the registry.
AuthenticationGating ==
    \A k \in Sessions :
        /\ k \in StoreJids
        /\ "websocket" \in DOMAIN registered_clients[k]
        /\ login[Channel(k)] # <<>>
        /\ login[Channel(k)][1].ok
        /\ login[Channel(k)][1].jid = k

\* A login for an identity that is in the registry has just failed.
AuthenticationGatingSeen ==
    /\ ev.op = "login"
    /\ ~login[ev.c][1].ok
    /\ Clean(ev.inp[1].jid) \in Sessions
    /\ AuthenticationGating

\* The sessions of the registry: identity and channel.
Held == {<<k, Channel(k)>> : k \in Sessions}

\* C2: a session leaves the registry only in a step of the handler of the
\* connection whose channel it holds (that connection closes), or in the
\* step of an accepted login for the same identity (it is overwritten).
SessionLeavesWithOwner ==
    [][\A s \in Held :
          s \notin Held' =>
              \/ ev'.c = s[2] /\ ev'.op # "login"
              \/ /\ ev'.op = "login"
                 /\ login'[ev'.c][1].ok
                 /\ login'[ev'.c][1].jid = s[1]]_vars

\* Connection c logged in and a later login for its identity was accepted.
Superseded(c) ==
    /\ login[c] # <<>>
    /\ login[c][1].ok
    /\ latest[login[c][1].jid] # c

\* Connection c made the last accepted login for its identity.
Newest(c) ==
    /\ login[c] # <<>>
    /\ login[c][1].ok
    /\ latest[login[c][1].jid] = c

\* Connection c is open and its handler is inside its try block: it has
\* not started its teardown.
InTry(c) ==
    /\ alive[c]
    /\ \/ pc[c] \in {"presence", "loop"}
       \/ pc[c] = "bcast" /\ iter[c][1].cont = "loop"

\* Connection c replaced an earlier session of its identity and is open.
Replacing(c) ==
    /\ Newest(c)
    /\ InTry(c)
    /\ \E d \in Slots : Superseded(d) /\ login[d][1].jid = login[c][1].jid

Indices(seq) == DOMAIN seq

Entries(roster, k) == {a \in Indices(roster) : roster[a].jid = k}

\* C3: a second accepted login for an active identity replaces the first
\* session.  As long as the replacing connection is open, the registry
\* holds exactly one entry for the identity, with the channel and the
\* public key of that connection, and every roster built lists the identity
\* exactly once, with that key; a record routed to an identity goes out on
\* the channel of its last accepted login, and no routed record or presence
\* message goes out on a superseded channel.
SecondLoginReplaces ==
    /\ \A c \in Slots :
          Replacing(c) =>
              LET k == login[c][1].jid
              IN  /\ Cardinality({i \in DOMAIN active_connections :
                                     active_connections[i] = k}) = 1
                  /\ Channel(k) = c
                  /\ registered_clients[k].publickey = login[c][1].publickey
                  /\ \A n \in Indices(ev.push) :
                        /\ Cardinality(Entries(ev.push[n].presence, k)) = 1
                        /\ \A a \in Entries(ev.push[n].presence, k) :
                              ev.push[n].presence[a].publickey = login[c][1].publickey
    /\ \A n \in Indices(ev.sent) :
          LET f == ev.sent[n]
          IN  /\ f.msg.tag \in {"message", "file", "presence"} => ~Superseded(f.chan)
              /\ (f.msg.tag \in {"message", "file"} /\ f.msg.to # Public)
                    => f.chan = latest[f.msg.to]

\* The connections whose login was accepted.
LoggedIn == {c \in Slots : login[c] # <<>> /\ login[c][1].ok}

\* The roster entry of the session of connection c: the nickname of the
\* Credential Store as loaded, the public key of the login frame.
Entry(c) ==
    [nickname |-> InitialClients[login[c][1].jid].nickname,
     jid |-> login[c][1].jid,
     publickey |-> login[c][1].publickey]

\* C4: when N connections have logged in with N distinct identities and
\* none of them has disconnected or started its teardown, every presence
\* push built has exactly N entries, one per identity, each with the jid,
\* the nickname of the Credential Store record and the public key of the
\* login frame.
PresenceListsSessions ==
    (\A c \in LoggedIn : Newest(c) /\ InTry(c)) =>
        \A n \in Indices(ev.push) :
            LET roster == ev.push[n].presence
            IN  /\ Len(roster) = Cardinality(LoggedIn)
                /\ {roster[a] : a \in Indices(roster)} = {Entry(c) : c \in LoggedIn}

\* The first check a sanitized identity and password fail, in the order of
\* the validation; "none" when the login is to be accepted.
FirstFailing(j, password) ==
    IF j = <<>> THEN "jid empty"
    ELSE IF Len(j) > 64 THEN "jid long"
    ELSE IF password = <<>> THEN "password empty"
    ELSE IF Len(password) > 64 THEN "password long"
    ELSE IF j \in StoreJids /\ verify_password(InitialClients[j].password, password)
    THEN "none"
    ELSE "authentication"

\* The literal of each error as the specification words it, and as the
\* handler sends it.
WordedTexts ==
    [c \in {"jid empty", "jid long", "password empty", "password long", "authentication"} |->
        CASE c = "jid empty" -> "JID cannot be empty"
          [] c = "jid long" -> "JID should be less than 64 characters"
          [] c = "password empty" -> "Password cannot be empty"
          [] c = "password long" -> "Password should be less than 64 characters"
          [] c = "authentication" -> "Incorrect email and password"]

SentTexts ==
    [c \in DOMAIN WordedTexts |->
        IF c = "authentication" THEN WordedTexts[c]
        ELSE IF c = "jid empty" THEN "* JID cannot be empty"
        ELSE IF c = "jid long" THEN "* JID should be less than 64 characters"
        ELSE IF c = "password empty" THEN "* Password cannot be empty"
        ELSE "* Password should be less than 64 characters"]

\* The frames the last step sent on the channel of its own connection.
OwnFrames == SelectSeq(ev.sent, LAMBDA f : f.chan = ev.c)

\* The handler of c is past its try block, or never entered the message
\* loop and is about to leave it: it reads no frame any more.
InCleanup(c) ==
    \/ pc[c] \in {"finally", "sleep", "done"}
    \/ pc[c] = "bcast" /\ iter[c][1].cont = "sleep"

\* The login validation, the errors worded as text gives them.
LoginChecks(text) ==
    /\ ev.op = "login" =>
          LET j == Clean(ev.inp[1].jid)
              password == Clean(ev.inp[1].password)
              failing == FirstFailing(j, password)
          IN  /\ failing # "none" =>
                    /\ OwnFrames \in {<<>>, <<Frame(ev.c, ErrorMessage(text[failing]))>>}
                    /\ ev.exc = "" => OwnFrames # <<>>
                    /\ InCleanup(ev.c)
              /\ failing = "none" =>
                    Len(SelectSeq(OwnFrames, LAMBDA f : f.msg.tag \in {"error", "success"})) <= 1
              /\ Len(j) = 64 => failing # "jid long"
              /\ Len(password) = 64 => failing # "password long"
              /\ (Len(j) = 64 /\ Len(password) = 64) =>
                    \A n \in Indices(OwnFrames) :
                        OwnFrames[n].msg = ErrorMessage(text["authentication"])
    /\ \A c \in Slots : (login[c] # <<>> /\ ~login[c][1].ok) => InCleanup(c)

\* C5 as worded: login validation is ordered and short-circuiting, with one
\* attempt per connection.  The handler sends at most one reply, the error
\* of the first failing check among identity empty ("JID cannot be empty"),
\* identity longer than 64 ("JID should be less than 64 characters"),
\* password empty ("Password cannot be empty"), password longer than 64
\* ("Password should be less than 64 characters"), authentication failure
\* ("Incorrect email and password"); a length of exactly 64 is not
\* rejected; after an error reply the handler reads no further frame and
\* goes to cleanup.
LoginValidationAsWorded == LoginChecks(WordedTexts)

\* C5, amended: the same, with the four validation errors as the handler
\* words them, each with the prefix "* ".
LoginValidation == LoginChecks(SentTexts)

\* An identity and a password of exactly 64 characters were answered with
\* the authentication error, and the handler is in its cleanup.
LoginValidationSeen ==
    /\ ev.op = "login"
    /\ Len(Clean(ev.inp[1].jid)) = 64
    /\ Len(Clean(ev.inp[1].password)) = 64
    /\ ev.sent = <<Frame(ev.c, ErrorMessage("Incorrect email and password"))>>
    /\ InCleanup(ev.c)

\* The number of sends of a loop on channel w.
Times(got, w) == Cardinality({n \in Indices(got) : got[n] = w})

\* C6: a forwarded record with to = "public" is sent exactly once on the
\* channel of every session that is in the registry when it is routed and
\* whose connection is open, the sender's own included.
PublicReachesAll ==
    \A n \in Indices(ev.fin) :
        LET loop == ev.fin[n]
        IN  (loop.msg.tag \in {"message", "file"} /\ loop.msg.to = Public) =>
                \A w \in loop.open : Times(loop.got, w) = 1

\* The last step read an envelope that was forwarded to the identity of a
\* session of the registry.
Direct ==
    /\ ev.op = "recv"
    /\ ev.fwd # <<>>
    /\ ev.fwd[1].to # Public
    /\ ev.fwd[1].to \in StoreJids
    /\ latest[ev.fwd[1].to] # 0

\* C7: an envelope forwarded to the identity of an active session is sent
\* on the channel of that session only: every frame that carries it is on
\* the channel the registry holds for the target, there is at most one,
\* and in particular none is on the channel of a sender of another identity.
DirectOnlyToTarget ==
    Direct =>
        LET carried == SelectSeq(ev.sent, LAMBDA f : f.msg = ev.fwd[1])
        IN  /\ Len(carried) <= 1
            /\ \A n \in Indices(carried) :
                  /\ carried[n].chan = latest[ev.fwd[1].to]
                  /\ (login[ev.c][1].jid # ev.fwd[1].to) => carried[n].chan # ev.c
            /\ (ev.exc = "" /\ ev.fwd[1].to \in Sessions) => Len(carried) = 1

\* A connection forwarded a message to the other identity, and it went out
\* on the other connection's channel while the sender stays in its loop.
DirectOnlyToTargetSeen ==
    /\ Direct
    /\ login[ev.c][1].jid # ev.fwd[1].to
    /\ \E n \in Indices(ev.sent) :
          /\ ev.sent[n].msg = ev.fwd[1]
          /\ ev.sent[n].chan # ev.c
    /\ pc[ev.c] = "loop"
    /\ alive[ev.c]

\* The step read an envelope and did nothing: no frame on any channel, no
\* exception, the registry as it was, the handler back at its read.
Silent ==
    /\ ev'.sent = <<>>
    /\ ev'.exc = ""
    /\ pc'[ev'.c] = "loop"
    /\ active_connections' = active_connections

\* C8: an envelope whose to is neither "public" nor the identity of a
\* session of the registry produces no send on any channel, no error reply
\* to the sender included, and the sender's handler stays in the message loop.
UnknownTargetSilent ==
    [][(/\ ev'.op = "recv"
        /\ ev'.inp[1].to # Public
        /\ ev'.inp[1].to \notin Sessions) => Silent]_vars

\* An envelope of an active sender for an unknown identity passed the
\* forwarding test and was dropped by the router.
UnknownTargetSeen ==
    /\ ev.op = "recv"
    /\ ev.fwd # <<>>
    /\ ev.fwd[1].to = Stranger
    /\ ev.sent = <<>>
    /\ pc[ev.c] = "loop"
    /\ Sessions # {}

\* The forwarding test as the specification states it.
ToForward(data) ==
    \/ data.tag = "message" /\ Clean(data.info) # <<>>
    \/ data.tag = "file"

\* C9: an envelope from an active sender is forwarded if and only if its
\* tag is "message" and its sanitized info is not empty, or its tag is
\* "file".  A forwarded envelope is handed to the router with its tag,
\* from and to, and goes out when its target is there and no send fails;
\* every other envelope causes no send on any channel and no error reply.
ForwardingPredicate ==
    [][(ev'.op = "recv" /\ ev'.inp[1].from \in Sessions) =>
          LET data == ev'.inp[1]
          IN  /\ ToForward(data) <=> ev'.fwd # <<>>
              /\ ToForward(data) =>
                    /\ ev'.fwd[1].tag = data.tag
                    /\ ev'.fwd[1].from = data.from
                    /\ ev'.fwd[1].to = data.to
                    /\ (ev'.exc = "" /\ data.to \in Sessions \cup {Public}) =>
                          \E n \in Indices(ev'.sent) : ev'.sent[n].msg = ev'.fwd[1]
              /\ ~ToForward(data) => Silent]_vars

\* A message whose info is not empty as received and empty as sanitized
\* came from an active sender and was dropped.
ForwardingPredicateSeen ==
    /\ ev.op = "recv"
    /\ ev.inp[1].tag = "message"
    /\ ev.inp[1].info # <<>>
    /\ Clean(ev.inp[1].info) = <<>>
    /\ ev.inp[1].from \in Sessions
    /\ ev.inp[1].to \in Sessions
    /\ ev.fwd = <<>>
    /\ ev.sent = <<>>

\* The handler of c leaves its try block in this step.
TearsDown(c) ==
    /\ \/ pc[c] \in {"presence", "loop"}
       \/ pc[c] = "bcast" /\ iter[c][1].cont = "loop"
    /\ \/ pc'[c] \in {"sleep", "done"}
       \/ pc'[c] = "bcast" /\ iter'[c][1].cont = "sleep"

\* C10: when the connection of an active session goes through its
\* teardown, exactly one presence push is built for it, its roster does not
\* list the identity, and the loop that sends it reaches the channel of
\* every remaining session whose connection is open.
DisconnectRebroadcast ==
    [][\A k \in Sessions :
          (Channel(k) = ev'.c /\ TearsDown(ev'.c)) =>
              LET pushes == IF pc[ev'.c] = "presence" THEN Tail(ev'.push) ELSE ev'.push
              IN  /\ Len(pushes) = 1
                  /\ Entries(pushes[1].presence, k) = {}
                  /\ \A n \in Indices(ev'.fin) :
                        ev'.fin[n].cont = "sleep" =>
                            /\ ev'.fin[n].msg = pushes[1]
                            /\ \A w \in ev'.fin[n].open :
                                  Times(ev'.fin[n].got, w) = 1]_vars

\* Connection c holds a session of the registry.
Holds(c) == \E k \in Sessions : Channel(k) = c

\* The step routes a record to an identity whose session is on the channel
\* of another connection, and that connection is dead.
DeadTarget ==
    /\ ev'.op = "recv"
    /\ ev'.fwd # <<>>
    /\ ev'.fwd[1].to \in Sessions
    /\ Channel(ev'.fwd[1].to) # ev'.c
    /\ ~alive[Channel(ev'.fwd[1].to)]

\* A broadcast loop of the step's try block ended with a failed send
\* although the channel of the step's own connection was open: the send
\* failed on the channel of another connection.
DeadRecipient ==
    \E n \in Indices(ev'.fin) :
        /\ ev'.fin[n].cont = "loop"
        /\ ev'.fin[n].exc = "ConnectionClosed"
        /\ ev'.c \in ev'.fin[n].open

\* C11: failure containment.  A handler whose send fails on the channel of
\* another, dead connection (a direct message to a dead recipient, or a
\* broadcast that meets one) stays in its message loop and keeps its
\* registry entry.
FailureContained ==
    [][\A c \in Slots :
          (ev'.c = c /\ (DeadTarget \/ DeadRecipient)) =>
              /\ pc'[c] = "loop"
              /\ Holds(c) => Holds(c)']_vars

\* The keys of the registry differ after the step.
MembershipChanged == LiveKeys(active_connections') # LiveKeys(active_connections)

\* C12: every membership change of the registry is immediately followed by
\* a presence broadcast.  The step that changes the membership builds a
\* roster or is about to, the last roster built lists the registry as the
\* change left it, and while a handler is between its insert and the
\* construction of its roster no other connection changes the registry or
\* has a message routed.
BroadcastFollowsChange ==
    [][/\ MembershipChanged =>
             /\ ev'.push # <<>> \/ pc'[ev'.c] = "presence"
             /\ ev'.push # <<>> =>
                   ev'.push[Len(ev'.push)].presence
                       = Roster(registered_clients', active_connections')
       /\ \A c \in Slots :
             (pc[c] = "presence" /\ ev'.c # c) =>
                 /\ ~MembershipChanged
                 /\ registered_clients' = registered_clients
                 /\ ev'.fwd = <<>>]_vars

\* The handler of c is past cleanup_user: it sleeps, or it has ended.
Ended(c) == pc[c] \in {"sleep", "done"}

\* C13: cleanup on every exit path.  Once the handler of a connection is
\* past its cleanup, whatever ended its try block, the registry holds no
\* session whose channel is that connection, and no frame is sent on the
\* channel of a connection whose handler ended in an earlier step.
CleanupOnExit ==
    /\ \A c \in Slots : Ended(c) => ~Holds(c)
    /\ \A n \in Indices(ev.sent) :
          Ended(ev.sent[n].chan) => ev.sent[n].chan = ev.c

\* A logged-in handler ended on a failed send while another session stays.
CleanupOnExitSeen ==
    /\ ev.op = "recv"
    /\ ev.exc = "ConnectionClosed"
    /\ Ended(ev.c)
    /\ login[ev.c][1].ok
    /\ latest[login[ev.c][1].jid] = ev.c
    /\ Sessions # {}
    /\ CleanupOnExit

\* C14: sender binding.  Every envelope forwarded on a channel was read from
\* a connection that holds a session of the registry, and its from is the
\* identity of that session: a connection cannot have an envelope with
\* another identity as from forwarded, and a connection whose session was
\* superseded or removed cannot have any envelope forwarded.
SenderBinding ==
    [][(/\ ev'.op = "recv"
        /\ ev'.fwd # <<>>
        /\ \E n \in Indices(ev'.sent) : ev'.sent[n].msg = ev'.fwd[1]) =>
          \E k \in Sessions :
              /\ Channel(k) = ev'.c
              /\ ev'.fwd[1].from = k]_vars

\* C15: an envelope whose from is not the identity of a session of the
\* registry is discarded: it is not handed to the router, no frame goes
\* out on any channel (no forward, no reply), and the registry and the
\* records stay as they were.
InactiveSenderDiscarded ==
    [][(ev'.op = "recv" /\ ev'.inp[1].from \notin Sessions) =>
          /\ Silent
          /\ ev'.fwd = <<>>
          /\ registered_clients' = registered_clients]_vars

\* A message that passes the forwarding test, addressed to an active
\* session and naming a registered identity that is not active as its
\* sender, was dropped.
InactiveSenderDiscardedSeen ==
    /\ ev.op = "recv"
    /\ ev.inp[1].from \in StoreJids \ Sessions
    /\ ev.inp[1].to \in Sessions
    /\ ToForward(ev.inp[1])
    /\ ev.sent = <<>>
    /\ ev.fwd = <<>>
    /\ pc[ev.c] = "loop"

\* The channels a loop sent on.
Reached(loop) == {loop.got[n] : n \in Indices(loop.got)}

\* C16: consistent broadcast snapshot.  No broadcast loop ends because the
\* registry changed during the iteration, and a loop that ran to its end
\* sent exactly once on the channel of each session that was in the
\* registry when it started, and on no other channel.
ConsistentSnapshot ==
    \A n \in Indices(ev.fin) :
        /\ ev.fin[n].exc # "RuntimeError"
        /\ ev.fin[n].exc = "" =>
              /\ Reached(ev.fin[n]) = ev.fin[n].snap
              /\ \A w \in ev.fin[n].snap : Times(ev.fin[n].got, w) = 1

\* C17: a send that fails in the middle of a broadcast does not abort the
\* delivery to the others.  In every broadcast loop in which a send failed,
\* every channel that was registered when the loop started and is open has
\* been sent the message.
SendFailureTolerated ==
    \A n \in Indices(ev.fin) :
        ev.fin[n].exc = "ConnectionClosed" =>
            ev.fin[n].open \subseteq Reached(ev.fin[n])

\* How far the handler of c is: 0 not started, 1 AwaitingLogin,
\* 2 Authenticated or MessageLoop, 3 Closed (in its finally block or past it).
Stage(c) ==
    IF pc[c] = "idle" THEN 0
    ELSE IF pc[c] = "login" THEN 1
    ELSE IF pc[c] \in {"presence", "loop"} \/ (pc[c] = "bcast" /\ iter[c][1].cont = "loop")
    THEN 2
    ELSE 3

\* C18: Closed is terminal.  A handler moves only forward through its
\* states, and once it has removed its session and sent the removal push
\* it does nothing that reaches another connection: it opens no new
\* connection and starts no other login or handler.
ClosedIsTerminal ==
    [][\A c \in Slots :
          /\ Stage(c)' >= Stage(c)
          /\ (Ended(c) /\ ev'.c = c) =>
                \A d \in Slots \ {c} : pc'[d] = pc[d]]_vars

\* C19: the record forwarded on a channel has exactly the fields tag, from,
\* to and info, and filename besides for the file tag, and the info of a
\* forwarded message is the sanitized info of the envelope read.
ForwardedInfoSanitized ==
    (/\ ev.op = "recv"
     /\ ev.fwd # <<>>
     /\ \E n \in Indices(ev.sent) : ev.sent[n].msg = ev.fwd[1]) =>
        /\ DOMAIN ev.fwd[1] =
              IF ev.fwd[1].tag = "file" THEN {"tag", "from", "to", "info", "filename"}
              ELSE {"tag", "from", "to", "info"}
        /\ ev.fwd[1].tag = "message" => ev.fwd[1].info = Clean(ev.inp[1].info)

\* C20: the Credential Store is immutable after load.  Every record is as
\* loaded, with its jid, nickname and password hash and no other field, and
\* so no channel or public key outlives its session anywhere.
CredentialStoreImmutable ==
    /\ registered_clients = InitialClients
    /\ \A k \in StoreJids \ Sessions :
          DOMAIN registered_clients[k] = {"nickname", "jid", "password"}

====
